---- MODULE Spec2Model ----
(***************************************************************************)
(* Model of the point editor of RecoilAtomDistributionWidget               *)
(* (widgets/matplotlib/simulation/recoil_atom_distribution.py).            *)
(*                                                                         *)
(* Coordinates are integers.  One x unit is x_res / XRes (a third of the   *)
(* minimum x distance), one y unit is y_min (0.0001), which is also the    *)
(* step of the y spinbox (4 decimals).  The x spinbox shows 2 decimals,    *)
(* that is multiples of x_res: multiples of XRes units.                    *)
(*                                                                         *)
(* The curve is the sequence of its Point objects.  The selection and the  *)
(* drag list hold references to Point objects of the curve: the model      *)
(* names a point by its position in the curve, and by 0 once remove_points *)
(* has taken it out of the curve while the drag list still refers to it.   *)
(***************************************************************************)
EXTENDS Integers, Sequences, FiniteSets, TLC

\* ---------------------------------------------------------------- bounds
MaxPoints == 3      \* add_point is not taken beyond this many curve points
MaxX      == 6      \* largest x of a point, a motion event or an entry under Spec
MaxY      == 2      \* largest y of a point, a pointer event or an entry
MaxUndo   == 1      \* most entries kept in all undo stacks together
MaxDepth  == 6      \* nested valueChanged handlers before the interpreter gives up
MaxWideX  == 9      \* largest x of a point where the drags are checked alone
MaxAddX   == 9      \* largest x of a curve or a candidate where add_point is checked alone
MaxEntryX == 6      \* largest x of a point or an entry where the entries are checked alone
MaxEntryY == 20     \* largest y of a point where the entries are checked alone
MaxFiles  == 3      \* most files handed to an md5 helper
MaxFileLen == 2     \* most bytes in one of those files
MaxEdits  == 2      \* most edits of settings fields the user makes
MaxDragged == 2     \* longest drag list followed after a lost release

\* ------------------------------------------------------ program constants
XRes     == 3       \* self.x_res = 0.01, in x units
YMin     == 1       \* self.y_min = 0.0001, in y units
DefaultX == 6       \* xs = [0.00, 35.00]: the x of the second default point, scaled
DefaultY == 2       \* ys = [1.0, 1.0], scaled
Round3Y  == 10      \* round(ratio * coord, 3): 0.001 is 10 y units

\* Point(xy): modules.point.Point, a mutable (x, y) with two history stacks.
Point(x, y) == [x |-> x, y |-> y, previous_x |-> <<>>, previous_y |-> <<>>]

VARIABLES
    current,          \* self.current_element_simulation is not None
    elem_lock,        \* the element simulation's own edit lock
    edit_lock_on,     \* self.edit_lock_on
    points,           \* self.current_recoil_element.get_points()
    selected_points,  \* self.selected_points
    dragged_points,   \* self.dragged_points
    click_locations,  \* self.click_locations: <<x0, y0, xclick, yclick>> per dragged point
    x_dist_left,      \* self.x_dist_left
    x_dist_right,     \* self.x_dist_right
    y_dist_lowest,    \* self.y_dist_lowest
    lowest_dr_p_i,    \* self.lowest_dr_p_i (0-based, as in the source)
    x_box,            \* self.x_coordinate_box: [value, enabled]
    y_box,            \* self.y_coordinate_box: [value, enabled]
    actionXUndo,      \* self.actionXUndo.isEnabled()
    actionYUndo,      \* self.actionYUndo.isEnabled()
    last_op,          \* history: the handler that ran last and how it ended,
                      \* "other" for one a specification does not follow by name
    file_paths,       \* tests.utils: the files handed to the md5 helpers, by content
    md5_result,       \* tests.utils: what the last call of an md5 helper returned
    element_simulation,  \* SimulationSettingsWidget.element_simulation
    settings,         \* SimulationSettingsWidget: what its input fields hold
    changed,          \* what the last call of values_changed returned
    edits             \* how many times the user has edited a settings field

vars == <<current, elem_lock, edit_lock_on, points, selected_points,
          dragged_points, click_locations, x_dist_left, x_dist_right,
          y_dist_lowest, lowest_dr_p_i, x_box, y_box, actionXUndo, actionYUndo,
          last_op, file_paths, md5_result, element_simulation, settings,
          changed, edits>>

\* What lies outside the recoil atom distribution widget.
outside_editor == <<file_paths, md5_result, element_simulation, settings,
                    changed, edits>>

\* What lies outside the md5 helpers and the settings widget.
editor_vars == <<current, elem_lock, edit_lock_on, points, selected_points,
                 dragged_points, click_locations, x_dist_left, x_dist_right,
                 y_dist_lowest, lowest_dr_p_i, x_box, y_box, actionXUndo,
                 actionYUndo>>

dragvars == <<click_locations, x_dist_left, x_dist_right, y_dist_lowest, lowest_dr_p_i>>

\* ------------------------------------------------------------- sequences
Range(s) == {s[i] : i \in 1..Len(s)}

Contains(s, e) == \E i \in 1..Len(s) : s[i] = e

\* list.index(e): the first position of e
IndexOf(s, e) == CHOOSE i \in 1..Len(s) : s[i] = e /\ \A j \in 1..(i - 1) : s[j] # e

\* A function on 1..n as a list.
AsList(f) == SubSeq(f, 1, Len(f))

\* s without its k-th element
RemoveAt(s, k) == AsList([j \in 1..(Len(s) - 1) |-> IF j < k THEN s[j] ELSE s[j + 1]])

Last(s) == s[Len(s)]

\* ------------------------------------------- RecoilElement / ElementSimulation
\* One step of a stable insertion sort by x: position e of pts is put into the
\* sorted list of positions s after every position whose x is not larger.
RECURSIVE InsertSorted(_, _, _)
InsertSorted(pts, s, e) ==
    IF s = <<>> THEN <<e>>
    ELSE IF pts[e].x < pts[Last(s)].x
         THEN Append(InsertSorted(pts, SubSeq(s, 1, Len(s) - 1), e), Last(s))
         ELSE Append(s, e)

\* RecoilElement._sort_points(): list.sort() with Point.__lt__ comparing x, a
\* stable sort.  The result lists the old positions of the first n points in
\* their new order.
RECURSIVE SortByX(_, _)
SortByX(pts, n) ==
    IF n = 0 THEN <<>> ELSE InsertSorted(pts, SortByX(pts, n - 1), n)

\* get_left_neighbor(recoil_element, point): the position of the point before
\* the one at position p, 0 for None.
get_left_neighbor(pts, p) == p - 1

\* get_right_neighbor(recoil_element, point): the position of the point after
\* the one at position p, 0 for None.
get_right_neighbor(pts, p) == IF p = Len(pts) THEN 0 ELSE p + 1

\* ------------------------------------------------------------- spin boxes
\* QDoubleSpinBox.setValue on the x box: 2 decimals (multiples of x_res),
\* minimum 0.
XBoxValue(v) == IF v <= 0 THEN 0 ELSE ((2 * v + XRes) \div (2 * XRes)) * XRes

\* QDoubleSpinBox.setValue on the y box: 4 decimals (one y unit), minimum y_min.
YBoxValue(v) == IF v < YMin THEN YMin ELSE v

\* ---------------------------------------------------------------- redraw
\* The part of the editor update_plot and the spin box handlers read and write.
St(pts, sel, lock, xb, yb) ==
    [points |-> pts, sel |-> sel, lock |-> lock, x_box |-> xb, y_box |-> yb,
     depth |-> 0]

RECURSIVE update_plot(_)

\* The x set_selected_point_x gives the first selected point for the value x
\* of the x box.
applied_x(st, x) ==
    LET p  == st.sel[1]
        L  == get_left_neighbor(st.points, p)
        R  == get_right_neighbor(st.points, p)
        lx == st.points[L].x
        rx == st.points[R].x
    IN  IF L = 0 THEN (IF x < rx THEN x ELSE rx - XRes)
        ELSE IF R = 0 THEN (IF x > lx THEN x ELSE lx + XRes)
        ELSE IF lx < x /\ x < rx THEN x
        ELSE IF lx >= x THEN lx + XRes
        ELSE IF rx <= x THEN rx - XRes
        ELSE st.points[p].x

\* set_selected_point_x: the valueChanged handler of the x box.  It calls
\* update_plot, whose setValue can call the handler again; a chain that does
\* not end is cut by the interpreter (RecursionError).
set_selected_point_x(st) ==
    IF st.depth >= MaxDepth THEN st
    ELSE update_plot([st EXCEPT !.points[st.sel[1]].x = applied_x(st, st.x_box.value),
                                !.depth = st.depth + 1])

\* Sensitivity of C35: a handler that writes the y of the box to every selected
\* point.
set_selected_point_y_all(st) ==
    IF st.depth >= MaxDepth THEN st
    ELSE update_plot([st EXCEPT
            !.points = AsList([k \in 1..Len(st.points) |->
                           IF Contains(st.sel, k)
                           THEN [st.points[k] EXCEPT !.y = st.y_box.value]
                           ELSE st.points[k]]),
            !.depth = st.depth + 1])

\* Sensitivity of C25: a handler that writes both coordinates from the boxes.
set_selected_point_y_both(st) ==
    IF st.depth >= MaxDepth THEN st
    ELSE update_plot([st EXCEPT !.points[st.sel[1]].y = st.y_box.value,
                                !.points[st.sel[1]].x = st.x_box.value,
                                !.depth = st.depth + 1])

\* set_selected_point_y: the valueChanged handler of the y box.
set_selected_point_y(st) ==
    IF st.depth >= MaxDepth THEN st
    ELSE update_plot([st EXCEPT !.points[st.sel[1]].y = st.y_box.value,
                                !.depth = st.depth + 1])

\* x_coordinate_box.setValue(v): rounds, and emits valueChanged when the value
\* of the box changes.
XSetValue(st, v) ==
    IF XBoxValue(v) = st.x_box.value THEN st
    ELSE set_selected_point_x([st EXCEPT !.x_box.value = XBoxValue(v)])

\* y_coordinate_box.setValue(v)
YSetValue(st, v) ==
    IF YBoxValue(v) = st.y_box.value THEN st
    ELSE set_selected_point_y([st EXCEPT !.y_box.value = YBoxValue(v)])

\* update_plot with an element simulation current: enables the boxes and loads
\* them with the coordinates of the first selected point.
update_plot(st) ==
    IF st.sel = <<>>
    THEN [st EXCEPT !.x_box.enabled = FALSE, !.y_box.enabled = FALSE]
    ELSE LET s1 == [st EXCEPT !.x_box.enabled =
                        ~(st.sel[1] = Len(st.points) /\ st.lock)]
             s2 == XSetValue(s1, s1.points[s1.sel[1]].x)
             s3 == [s2 EXCEPT !.y_box.enabled = TRUE]
         IN  YSetValue(s3, s3.points[s3.sel[1]].y)

\* Writes the redrawn state back.
Redraw(pts, sel, lock) ==
    LET st == update_plot(St(pts, sel, lock, x_box, y_box))
    IN  /\ points' = st.points
        /\ x_box' = st.x_box
        /\ y_box' = st.y_box

\* ------------------------------------------------------------------ drag
\* set_on_click_attributes(event): the snapshot a drag works from.
locations(pts, dr, ex, ey) ==
    AsList([i \in 1..Len(dr) |-> <<pts[dr[i]].x, pts[dr[i]].y, ex, ey>>])

dist_left(pts, dr) ==
    AsList([k \in 1..(Len(dr) - 1) |-> pts[dr[k + 1]].x - pts[dr[1]].x])

dist_right(pts, dr) ==
    AsList([k \in 1..(Len(dr) - 1) |-> pts[Last(dr)].x - pts[dr[k]].x])

\* The index (0-based) of the first point of dr with the lowest y.
lowest_index(pts, dr) ==
    (CHOOSE i \in 1..Len(dr) :
        /\ \A j \in 1..Len(dr) : pts[dr[i]].y <= pts[dr[j]].y
        /\ \A j \in 1..(i - 1) : pts[dr[j]].y > pts[dr[i]].y) - 1

dist_lowest(pts, dr) ==
    AsList([i \in 1..Len(dr) |-> pts[dr[i]].y - pts[dr[lowest_index(pts, dr) + 1]].y])

set_on_click_attributes(pts, dr, ex, ey) ==
    /\ click_locations' = locations(pts, dr, ex, ey)
    /\ x_dist_left' = dist_left(pts, dr)
    /\ x_dist_right' = dist_right(pts, dr)
    /\ lowest_dr_p_i' = lowest_index(pts, dr)
    /\ y_dist_lowest' = dist_lowest(pts, dr)

\* Pointer positions (event.xdata, event.ydata) of a press on the line: one x
\* off the grid of the x box and two on it.
PointerX == {1, XRes, 2 * XRes}
PointerY == 0..MaxY

\* get_new_unchecked_coordinates(event): original + (pointer - pointer at press)
get_new_unchecked_coordinates(cl, ex, ey) ==
    AsList([i \in 1..Len(cl) |-> [x |-> cl[i][1] + (ex - cl[i][3]),
                           y |-> cl[i][2] + (ey - cl[i][4])]])

\* The group put against its left neighbor, whose x is lx.
against_left(c, lx, dl) ==
    AsList([i \in 1..Len(c) |-> [c[i] EXCEPT !.x = IF i = 1 THEN lx + XRes
                                           ELSE lx + XRes + dl[i - 1]]])

\* The group put against its right neighbor, whose x is rx.
against_right(c, rx, dr) ==
    AsList([i \in 1..Len(c) |-> [c[i] EXCEPT !.x = IF i = Len(c) THEN rx - XRes
                                           ELSE rx - XRes - dr[i]]])

\* The neighbor collision check of get_new_checked_coordinates.
check_neighbors(c, L, R, lx, rx, dl, dr) ==
    IF L = 0 /\ R = 0 THEN c
    ELSE IF L = 0
    THEN (IF c[Len(c)].x >= rx - XRes THEN against_right(c, rx, dr) ELSE c)
    ELSE IF R = 0
    THEN (IF c[1].x <= lx + XRes THEN against_left(c, lx, dl) ELSE c)
    ELSE IF lx + XRes >= c[1].x THEN against_left(c, lx, dl)
    ELSE IF rx - XRes <= c[Len(c)].x THEN against_right(c, rx, dr)
    ELSE c

\* The axis limit check of get_new_checked_coordinates.
check_axis(c, dl) ==
    IF c[1].x < 0
    THEN AsList([i \in 1..Len(c) |-> [c[i] EXCEPT !.x = IF i = 1 THEN 0 ELSE dl[i - 1]]])
    ELSE c

\* The y floor check of get_new_checked_coordinates.
check_y_min(c, low, dy) ==
    IF c[low + 1].y < YMin
    THEN AsList([i \in 1..Len(c) |-> [c[i] EXCEPT !.y = YMin + dy[i]]])
    ELSE c

\* get_new_checked_coordinates(event)
get_new_checked_coordinates(pts, dr, cl, dl, drt, low, dy, ex, ey) ==
    LET L  == get_left_neighbor(pts, dr[1])
        R  == get_right_neighbor(pts, Last(dr))
        lx == pts[L].x
        rx == pts[R].x
    IN  check_y_min(
            check_axis(
                check_neighbors(get_new_unchecked_coordinates(cl, ex, ey),
                                L, R, lx, rx, dl, drt),
                dl),
            low, dy)

\* Sensitivity of C15: a loop that writes both coordinates to every dragged
\* point, the last point of a locked curve included.
RECURSIVE move_points_all(_, _, _, _, _)
move_points_all(pts, dr, c, lock, i) ==
    IF i > Len(dr) THEN pts
    ELSE move_points_all(
            IF dr[i] = 0 THEN pts
            ELSE [pts EXCEPT ![dr[i]].x = c[i].x, ![dr[i]].y = c[i].y],
            dr, c, lock, i + 1)

\* Sensitivity of C34: a loop that gives the new y of a dragged point to every
\* point of the curve that follows it as well.
RECURSIVE move_points_onward(_, _, _, _, _)
move_points_onward(pts, dr, c, lock, i) ==
    IF i > Len(dr) THEN pts
    ELSE move_points_onward(
            IF dr[i] = 0 THEN pts
            ELSE AsList([k \in 1..Len(pts) |->
                     IF k = dr[i] /\ ~(k = Len(pts) /\ lock)
                     THEN [pts[k] EXCEPT !.x = c[i].x, !.y = c[i].y]
                     ELSE IF k >= dr[i] THEN [pts[k] EXCEPT !.y = c[i].y]
                     ELSE pts[k]]),
            dr, c, lock, i + 1)

\* The loop of on_motion that writes the new coordinates to the dragged points,
\* from the i-th on: the last point of the curve keeps its x under edit lock.
\* A dragged point that is no longer in the curve (0) is not part of the curve.
RECURSIVE move_points(_, _, _, _, _)
move_points(pts, dr, c, lock, i) ==
    IF i > Len(dr) THEN pts
    ELSE move_points(
            IF dr[i] = 0 THEN pts
            ELSE IF dr[i] = Len(pts) /\ lock
            THEN [pts EXCEPT ![dr[i]].y = c[i].y]
            ELSE [pts EXCEPT ![dr[i]].x = c[i].x, ![dr[i]].y = c[i].y],
            dr, c, lock, i + 1)

\* The part of the plane the model follows the curve in: a handler whose result
\* leaves it is not taken.
InWindow(pts) == \A i \in 1..Len(pts) : pts[i].x \in 0..MaxX /\ pts[i].y \in 0..MaxY

\* ------------------------------------------------------------ tests.utils
\* The contents a file can have (bytes 0 and 1) and the lists of files handed
\* to the helpers; a file is its content.
Contents == UNION {[1..n -> 0..1] : n \in 0..MaxFileLen}
FileLists == UNION {[1..n -> Contents] : n \in 0..MaxFiles}

\* hashlib.md5(): a hasher is the bytes it has been fed; no name is bound to a
\* hasher before the loop of get_md5_for_files.
md5_new == [bound |-> TRUE, fed |-> <<>>]
md5_unbound == [bound |-> FALSE, fed |-> <<>>]

\* hasher.update(buf)
md5_update(hasher, buf) == [hasher EXCEPT !.fed = @ \o buf]

\* hasher.hexdigest(): a number that tells any two of the byte strings tried
\* apart, as MD5 does.
RECURSIVE hexdigest_of(_)
hexdigest_of(fed) ==
    IF fed = <<>> THEN 0 ELSE Head(fed) + 1 + 3 * hexdigest_of(Tail(fed))

\* The loop of get_md5_for_files: hasher = hashlib.md5() is inside the loop.
RECURSIVE md5_loop(_, _)
md5_loop(paths, hasher) ==
    IF paths = <<>> THEN hasher
    ELSE md5_loop(Tail(paths), md5_update(md5_new, Head(paths)))

\* get_md5_for_files(file_paths): the digest, or UnboundLocalError for an empty
\* list.
get_md5_for_files(paths) ==
    LET hasher == md5_loop(paths, md5_unbound)
    IN  IF hasher.bound
        THEN [raised |-> FALSE, digest |-> hexdigest_of(hasher.fed)]
        ELSE [raised |-> TRUE, digest |-> 0]

\* check_md5_for_files(file_paths, checksum): any exception is caught.
check_md5_for_files(paths, checksum) ==
    LET actual == get_md5_for_files(paths)
    IN  IF actual.raised THEN [ok |-> FALSE, message |-> "exception"]
        ELSE IF actual.digest = checksum
        THEN [ok |-> TRUE, message |-> "files match the given checksum"]
        ELSE [ok |-> FALSE, message |-> "files do not match the given checksum"]

\* The combined content of the files.
RECURSIVE combined(_)
combined(paths) ==
    IF paths = <<>> THEN <<>> ELSE Head(paths) \o combined(Tail(paths))

\* The checksums a caller expects: of the combined content and of each file.
Checksums(paths) ==
    {hexdigest_of(combined(paths))} \cup {hexdigest_of(paths[i]) : i \in 1..Len(paths)}

\* A test calls get_md5_for_files.
call_get_md5_for_files ==
    /\ md5_result' = [call |-> "get_md5_for_files",
                      value |-> get_md5_for_files(file_paths)]
    /\ last_op' = "get_md5_for_files"
    /\ UNCHANGED <<editor_vars, file_paths, element_simulation, settings,
                   changed, edits>>

\* A test calls check_md5_for_files.
call_check_md5_for_files(checksum) ==
    /\ md5_result' = [call |-> "check_md5_for_files",
                      value |-> check_md5_for_files(file_paths, checksum),
                      checksum |-> checksum]
    /\ last_op' = "check_md5_for_files"
    /\ UNCHANGED <<editor_vars, file_paths, element_simulation, settings,
                   changed, edits>>

\* --------------------------------------------------- simulation settings
\* _TYPE_CONVERSION
_TYPE_CONVERSION(value) ==
    CASE value = "RBS" -> "SCT"
      [] value = "ERD" -> "REC"
      [] value = "SCT" -> "RBS"
      [] value = "REC" -> "ERD"

\* str.lower() on the texts of the simulation mode.
lower(text) ==
    CASE text = "Narrow" -> "narrow"
      [] text = "Wide" -> "wide"
      [] OTHER -> text

\* The input fields of the widget and the values tried in each.
FieldValues ==
    [nameLineEdit |-> {"Default", "Other"},
     descriptionPlainTextEdit |-> {"", "text"},
     typeOfSimulationComboBox |-> {"REC", "SCT"},
     modeComboBox |-> {"Narrow", "Wide"},
     numberOfIonsSpinBox |-> {1, 2},
     numberOfPreIonsSpinBox |-> {1, 2},
     numberOfScalingIonsSpinBox |-> {1, 2},
     numberOfRecoilsSpinBox |-> {1, 2},
     minimumScatterAngleDoubleSpinBox |-> {1, 2},
     minimumMainScatterAngleDoubleSpinBox |-> {1, 2},
     minimumEnergyDoubleSpinBox |-> {1, 2},
     seedSpinBox |-> {1, 2}]

\* The properties bound to the input fields: the value the field holds, but
\* for simulation_type (_simulation_type_from_combobox) and simulation_mode
\* (_simulation_mode_from_combobox).
properties(w) ==
    [name |-> w.nameLineEdit,
     description |-> w.descriptionPlainTextEdit,
     simulation_type |-> _TYPE_CONVERSION(w.typeOfSimulationComboBox),
     simulation_mode |-> lower(w.modeComboBox),
     number_of_ions |-> w.numberOfIonsSpinBox,
     number_of_ions_in_presimu |-> w.numberOfPreIonsSpinBox,
     number_of_scaling_ions |-> w.numberOfScalingIonsSpinBox,
     number_of_recoils |-> w.numberOfRecoilsSpinBox,
     minimum_scattering_angle |-> w.minimumScatterAngleDoubleSpinBox,
     minimum_main_scattering_angle |-> w.minimumMainScatterAngleDoubleSpinBox,
     minimum_energy_of_ions |-> w.minimumEnergyDoubleSpinBox,
     seed |-> w.seedSpinBox]

\* The element simulations a settings widget is opened on: the stored mode in
\* lower case or as the combo box spells it, either type.
ElementSimulations ==
    {[name |-> "Default", description |-> "", simulation_type |-> t,
      simulation_mode |-> m, number_of_ions |-> 1, number_of_preions |-> 1,
      seed_number |-> 1, number_of_recoils |-> 1, number_of_scaling_ions |-> 1,
      minimum_scattering_angle |-> 1, minimum_main_scattering_angle |-> 1,
      minimum_energy |-> 1,
      recoil_type |-> IF t = "ERD" THEN "rec" ELSE "sct"] :
        t \in {"ERD", "RBS"}, m \in {"narrow", "Narrow", "wide"}}

\* set_properties in __init__: the fields show the element simulation.
shown(es) ==
    [nameLineEdit |-> es.name,
     descriptionPlainTextEdit |-> es.description,
     typeOfSimulationComboBox |-> _TYPE_CONVERSION(es.simulation_type),
     modeComboBox |-> CHOOSE item \in FieldValues.modeComboBox :
                          lower(item) = lower(es.simulation_mode),
     numberOfIonsSpinBox |-> es.number_of_ions,
     numberOfPreIonsSpinBox |-> es.number_of_preions,
     numberOfScalingIonsSpinBox |-> es.number_of_scaling_ions,
     numberOfRecoilsSpinBox |-> es.number_of_recoils,
     minimumScatterAngleDoubleSpinBox |-> es.minimum_scattering_angle,
     minimumMainScatterAngleDoubleSpinBox |-> es.minimum_main_scattering_angle,
     minimumEnergyDoubleSpinBox |-> es.minimum_energy,
     seedSpinBox |-> es.seed_number]

\* Sensitivity of C28: a values_changed that registers the seed number too.
values_changed_seed(es, w) ==
    LET self == properties(w)
    IN  IF es.name # self.name THEN TRUE
        ELSE IF es.description # self.description THEN TRUE
        ELSE IF es.simulation_type # self.simulation_type THEN TRUE
        ELSE IF lower(es.simulation_mode) # self.simulation_mode THEN TRUE
        ELSE IF es.number_of_ions # self.number_of_ions THEN TRUE
        ELSE IF es.number_of_preions # self.number_of_ions_in_presimu THEN TRUE
        ELSE IF es.seed_number # self.seed THEN TRUE
        ELSE IF es.number_of_recoils # self.number_of_recoils THEN TRUE
        ELSE IF es.number_of_scaling_ions # self.number_of_scaling_ions THEN TRUE
        ELSE IF es.minimum_scattering_angle # self.minimum_scattering_angle THEN TRUE
        ELSE IF es.minimum_main_scattering_angle # self.minimum_main_scattering_angle
        THEN TRUE
        ELSE IF es.minimum_energy # self.minimum_energy_of_ions THEN TRUE
        ELSE FALSE

\* values_changed()
values_changed(es, w) ==
    LET self == properties(w)
    IN  IF es.name # self.name THEN TRUE
        ELSE IF es.description # self.description THEN TRUE
        ELSE IF es.simulation_type # self.simulation_type THEN TRUE
        ELSE IF lower(es.simulation_mode) # self.simulation_mode THEN TRUE
        ELSE IF es.number_of_ions # self.number_of_ions THEN TRUE
        ELSE IF es.number_of_preions # self.number_of_ions_in_presimu THEN TRUE
        ELSE IF es.number_of_recoils # self.number_of_recoils THEN TRUE
        ELSE IF es.number_of_scaling_ions # self.number_of_scaling_ions THEN TRUE
        ELSE IF es.minimum_scattering_angle # self.minimum_scattering_angle THEN TRUE
        ELSE IF es.minimum_main_scattering_angle # self.minimum_main_scattering_angle
        THEN TRUE
        ELSE IF es.minimum_energy # self.minimum_energy_of_ions THEN TRUE
        ELSE FALSE

\* The caller of the widget asks values_changed().
call_values_changed ==
    /\ changed' = IF values_changed(element_simulation, settings)
                  THEN "True" ELSE "False"
    /\ last_op' = "values_changed"
    /\ UNCHANGED <<editor_vars, file_paths, md5_result, element_simulation,
                   settings, edits>>

\* The user puts value in an input field.
edit_field(field, value) ==
    /\ edits < MaxEdits
    /\ value # settings[field]
    /\ settings' = [settings EXCEPT ![field] = value]
    /\ edits' = edits + 1
    /\ last_op' = "edit_field"
    /\ UNCHANGED <<editor_vars, file_paths, md5_result, element_simulation,
                   changed>>

\* update_settings(): a changed type is also given to the recoil elements,
\* whose files are rewritten.
update_settings ==
    LET self == properties(settings)
    IN  /\ element_simulation' =
               [element_simulation EXCEPT
                   !.name = self.name,
                   !.description = self.description,
                   !.simulation_type = self.simulation_type,
                   !.recoil_type =
                       IF self.simulation_type = element_simulation.simulation_type
                       THEN @
                       ELSE IF self.simulation_type = "ERD" THEN "rec" ELSE "sct",
                   !.simulation_mode = self.simulation_mode,
                   !.number_of_ions = self.number_of_ions,
                   !.number_of_preions = self.number_of_ions_in_presimu,
                   !.seed_number = self.seed,
                   !.number_of_recoils = self.number_of_recoils,
                   !.number_of_scaling_ions = self.number_of_scaling_ions,
                   !.minimum_scattering_angle = self.minimum_scattering_angle,
                   !.minimum_main_scattering_angle =
                       self.minimum_main_scattering_angle,
                   !.minimum_energy = self.minimum_energy_of_ions]
        /\ last_op' = "update_settings"
        /\ UNCHANGED <<editor_vars, file_paths, md5_result, settings, changed,
                       edits>>

\* Nothing is going on outside the recoil atom distribution widget: no file
\* has been given to an md5 helper, no settings widget has been edited.
outside_at_rest ==
    /\ file_paths = <<>>
    /\ md5_result = [call |-> "none"]
    /\ element_simulation \in {es \in ElementSimulations :
            es.simulation_type = "ERD" /\ es.simulation_mode = "narrow"}
    /\ settings = shown(element_simulation)
    /\ changed = "none"
    /\ edits = 0

\* ------------------------------------------------------------------ state
\* Sensitivity of C26: default points with ys = [0.0, 0.0].
InitEditorFlat ==
    /\ current = FALSE
    /\ elem_lock \in BOOLEAN
    /\ edit_lock_on = FALSE
    /\ points = <<Point(0, 0), Point(DefaultX, 0)>>
    /\ selected_points = <<>>
    /\ dragged_points = <<>>
    /\ click_locations = <<>>
    /\ x_dist_left = <<>>
    /\ x_dist_right = <<>>
    /\ y_dist_lowest = <<>>
    /\ lowest_dr_p_i = 0
    /\ x_box = [value |-> 0, enabled |-> FALSE]
    /\ y_box = [value |-> YMin, enabled |-> FALSE]
    /\ actionXUndo = FALSE
    /\ actionYUndo = FALSE
    /\ last_op = "other"

\* The editor after construction, with a newly created element simulation
\* (add_new_element_simulation: xs = [0.00, 35.00], ys = [1.0, 1.0]) that is
\* locked or not and is not chosen yet.
InitEditor ==
    /\ current = FALSE
    /\ elem_lock \in BOOLEAN
    /\ edit_lock_on = FALSE
    /\ points = <<Point(0, DefaultY), Point(DefaultX, DefaultY)>>
    /\ selected_points = <<>>
    /\ dragged_points = <<>>
    /\ click_locations = <<>>
    /\ x_dist_left = <<>>
    /\ x_dist_right = <<>>
    /\ y_dist_lowest = <<>>
    /\ lowest_dr_p_i = 0
    /\ x_box = [value |-> 0, enabled |-> FALSE]
    /\ y_box = [value |-> YMin, enabled |-> FALSE]
    /\ actionXUndo = FALSE
    /\ actionYUndo = FALSE
    /\ last_op = "other"

Init == InitEditor /\ outside_at_rest

\* The drag snapshot is read by on_motion only while dragged_points is not
\* empty, and every handler that fills dragged_points rewrites the snapshot
\* first.  The source leaves the old snapshot in place when it empties
\* dragged_points; the model drops it there, which no handler can tell apart.
drop_snapshot ==
    /\ click_locations' = <<>>
    /\ x_dist_left' = <<>>
    /\ x_dist_right' = <<>>
    /\ y_dist_lowest' = <<>>
    /\ lowest_dr_p_i' = 0

\* Sensitivity of C37: a choice that leaves the edit lock flag as the element
\* chosen before left it.
choose_element_stale ==
    /\ current' = TRUE
    /\ dragged_points' = <<>>
    /\ selected_points' = <<>>
    /\ drop_snapshot
    /\ Redraw(points, <<>>, edit_lock_on)
    /\ last_op' = "other"
    /\ UNCHANGED outside_editor
    /\ UNCHANGED <<elem_lock, edit_lock_on, actionXUndo, actionYUndo>>

\* choose_element(button, checked = True)
choose_element ==
    /\ current' = TRUE
    /\ edit_lock_on' = elem_lock
    /\ dragged_points' = <<>>
    /\ selected_points' = <<>>
    /\ drop_snapshot
    /\ Redraw(points, <<>>, elem_lock)
    /\ last_op' = "other"
    /\ UNCHANGED outside_editor
    /\ UNCHANGED <<elem_lock, actionXUndo, actionYUndo>>

\* unlock_edit(): the button is enabled while the lock is on; the user confirms
\* (yes) or cancels.
unlock_edit(yes) ==
    /\ current
    /\ edit_lock_on
    /\ elem_lock' = (IF yes THEN FALSE ELSE elem_lock)
    /\ edit_lock_on' = (IF yes THEN FALSE ELSE edit_lock_on)
    /\ Redraw(points, selected_points, edit_lock_on')
    /\ last_op' = "other"
    /\ UNCHANGED outside_editor
    /\ UNCHANGED <<current, selected_points, dragged_points, dragvars,
                   actionXUndo, actionYUndo>>

\* on_click(event), left button on the marker of the i-th point of the curve;
\* the pointer is at the point.
on_click_point(i) ==
    LET sel == IF Contains(selected_points, i) THEN selected_points ELSE <<i>>
        dr  == dragged_points \o sel
    IN  /\ current
        /\ i \in 1..Len(points)
        /\ selected_points' = sel
        /\ dragged_points' = dr
        /\ set_on_click_attributes(points, dr, points[i].x, points[i].y)
        /\ Redraw(points, sel, edit_lock_on)
        /\ last_op' = "other"
        /\ UNCHANGED outside_editor
        /\ UNCHANGED <<current, elem_lock, edit_lock_on, actionXUndo, actionYUndo>>

\* Sensitivity of C11: an error test that refuses every point closer than x_res
\* to a neighbor, whatever room there is on the other side.
no_space_near(x, lx, rx) == x - lx < XRes \/ rx - x < XRes

\* The error test of add_point for a new point at x between neighbors at lx, rx.
no_space(x, lx, rx) ==
    IF x - lx < XRes THEN rx - x < 2 * XRes
    ELSE IF rx - x < XRes THEN x - lx < 2 * XRes
    ELSE FALSE

\* Sensitivity of C10: an add_point that always puts the new point against its
\* right neighbor.
placed_x_right(x, lx, rx) == rx - XRes

\* The x add_point gives the new point when there is space for it.
placed_x(x, lx, rx) ==
    IF x - lx < XRes THEN lx + XRes
    ELSE IF rx - x < XRes THEN rx - XRes
    ELSE x

\* on_click(event), left button with Ctrl held, off every marker and off the
\* line: the selection is emptied.
on_click_ctrl_empty ==
    /\ current
    /\ selected_points' = <<>>
    /\ Redraw(points, <<>>, edit_lock_on)
    /\ last_op' = "other"
    /\ UNCHANGED outside_editor
    /\ UNCHANGED <<current, elem_lock, edit_lock_on, dragged_points,
                   dragvars, actionXUndo, actionYUndo>>

\* on_click(event), left button without Ctrl, off every marker: no branch of
\* the handler is taken.
on_click_missed ==
    /\ current
    /\ last_op' = "press_missed"
    /\ UNCHANGED <<editor_vars, outside_editor>>

\* The position a reference to position k has after the points were put in the
\* order perm and the point then at position q was taken out (q = 0: none was).
moved_to(perm, q, k) ==
    IF k = 0 THEN 0
    ELSE IF IndexOf(perm, k) > q /\ q # 0 THEN IndexOf(perm, k) - 1
    ELSE IndexOf(perm, k)

\* add_point(coords) on the curve pts: the new point is appended and the curve
\* sorted (ElementSimulation.add_point), its x is checked against its two
\* neighbors, and it is taken out again when there is no space.  perm is the
\* order the sort gave the points, q the position of the new point, ok whether
\* add_point returned the point (None otherwise).
add_point(pts, x, y) ==
    LET n    == Len(pts)
        pts0 == Append(pts, Point(x, y))
        perm == SortByX(pts0, n + 1)
        pts1 == AsList([k \in 1..(n + 1) |-> pts0[perm[k]]])
        q    == IndexOf(perm, n + 1)
        lx   == pts1[get_left_neighbor(pts1, q)].x
        rx   == pts1[get_right_neighbor(pts1, q)].x
    IN  IF no_space(x, lx, rx)
        THEN [ok |-> FALSE, points |-> RemoveAt(pts1, q), perm |-> perm, q |-> q]
        ELSE [ok |-> TRUE, points |-> [pts1 EXCEPT ![q].x = placed_x(x, lx, rx)],
              perm |-> perm, q |-> q]

\* Where the sort of add_point would put a point with this x: its position.
place_of(pts, x) == IndexOf(SortByX(Append(pts, Point(x, 0)), Len(pts) + 1), Len(pts) + 1)

\* lines.contains(event) off every marker: the pointer is between two points of
\* the curve, within the pick radius of the segment that joins them.
line_hit(pts, x, y) ==
    LET q  == place_of(pts, x)
        ly == pts[q - 1].y
        ry == pts[q].y
    IN  /\ q > 1 /\ q <= Len(pts)
        /\ \A i \in 1..Len(pts) : ~(pts[i].x = x /\ pts[i].y = y)
        /\ y >= (IF ly < ry THEN ly ELSE ry) - 1
        /\ y <= (IF ly < ry THEN ry ELSE ly) + 1

\* on_click(event), left button with Ctrl held on the line at (x, y), off every
\* marker: the selection is emptied, then add_point((x, y)).
on_click_line(x, y) ==
    LET r == add_point(points, x, y)
    IN  /\ current
        /\ Len(points) < MaxPoints
        /\ line_hit(points, x, y)
        /\ IF r.ok
           THEN /\ selected_points' = <<r.q>>
                /\ dragged_points' = <<r.q>>
                /\ set_on_click_attributes(r.points, <<r.q>>, x, y)
                /\ Redraw(r.points, <<r.q>>, edit_lock_on)
                /\ last_op' = "add"
           ELSE /\ selected_points' = <<>>
                /\ dragged_points' = AsList([i \in 1..Len(dragged_points) |->
                                        moved_to(r.perm, r.q, dragged_points[i])])
                /\ Redraw(r.points, <<>>, edit_lock_on)
                /\ last_op' = "add_rejected"
                /\ UNCHANGED dragvars
        /\ UNCHANGED outside_editor
        /\ UNCHANGED <<current, elem_lock, edit_lock_on, actionXUndo, actionYUndo>>

\* What on_motion makes of the editor for a pointer at (ex, ey): the checked
\* coordinates are written to the dragged points, then update_plot().
after_motion_at(pts, xb, yb, ex, ey) ==
    LET c == get_new_checked_coordinates(pts, dragged_points,
                 click_locations, x_dist_left, x_dist_right, lowest_dr_p_i,
                 y_dist_lowest, ex, ey)
        moved == move_points(pts, dragged_points, c, edit_lock_on, 1)
    IN  update_plot(St(moved, selected_points, edit_lock_on, xb, yb))

\* What on_motion makes of the editor as it is.
after_motion(ex, ey) == after_motion_at(points, x_box, y_box, ex, ey)

\* A drag is open and on_motion acts on it.
dragging ==
    /\ current
    /\ dragged_points # <<>>
    /\ click_locations # <<>>
    /\ dragged_points[1] # 0
    /\ Last(dragged_points) # 0

\* on_motion(event).  get_left_neighbor and get_right_neighbor raise for a
\* point that is no longer in the curve, and the handler then changes nothing.
on_motion(ex, ey) ==
    /\ current
    /\ dragged_points # <<>>
    /\ click_locations # <<>>
    /\ dragged_points[1] # 0
    /\ Last(dragged_points) # 0
    /\ LET st == after_motion(ex, ey)
       IN  /\ points' = st.points
           /\ x_box' = st.x_box
           /\ y_box' = st.y_box
    /\ last_op' = "motion"
    /\ UNCHANGED outside_editor
    /\ UNCHANGED <<current, elem_lock, edit_lock_on, selected_points,
                   dragged_points, dragvars, actionXUndo, actionYUndo>>

\* on_release(event) while the pan or the zoom tool is checked: the handler
\* returns before it clears dragged_points.  The button is up afterwards.
on_release_ignored ==
    /\ current
    /\ dragged_points # <<>>
    /\ last_op' = "release_ignored"
    /\ UNCHANGED <<editor_vars, outside_editor>>

\* Sensitivity of C19: a release handler that redraws but leaves the drag list
\* as it is.
on_release_keep ==
    /\ current
    /\ Redraw(points, selected_points, edit_lock_on)
    /\ last_op' = "other"
    /\ UNCHANGED outside_editor
    /\ UNCHANGED <<current, elem_lock, edit_lock_on, selected_points,
                   dragged_points, dragvars, actionXUndo, actionYUndo>>

\* on_release(event), left button
on_release ==
    /\ current
    /\ dragged_points' = <<>>
    /\ drop_snapshot
    /\ Redraw(points, selected_points, edit_lock_on)
    /\ last_op' = "other"
    /\ UNCHANGED outside_editor
    /\ UNCHANGED <<current, elem_lock, edit_lock_on, selected_points,
                   actionXUndo, actionYUndo>>

\* Sensitivity of C7: a removal that drops as many points as are selected, but
\* from the end of the curve.
without_tail(pts, sel, k) == SubSeq(pts, 1, Len(pts) - Len(sel))

\* The curve without the points at the positions of sel.
RECURSIVE without(_, _, _)
without(pts, sel, k) ==
    IF k > Len(pts) THEN <<>>
    ELSE IF Contains(sel, k) THEN without(pts, sel, k + 1)
    ELSE <<pts[k]>> \o without(pts, sel, k + 1)

\* The position a reference to position k has once the points of sel are out.
left_at(sel, k) ==
    IF k = 0 \/ Contains(sel, k) THEN 0
    ELSE k - Cardinality({j \in Range(sel) : j < k})

\* Sensitivity of C3: an error test that never refuses a removal.
too_few_never(pts, sel) == FALSE

\* The error test of remove_points.
too_few(pts, sel) == Len(pts) - Len(sel) < 2

\* remove_points()
remove_points ==
    /\ current
    /\ IF too_few(points, selected_points)
       THEN /\ last_op' = "remove_rejected"
            /\ UNCHANGED <<points, selected_points, dragged_points, x_box, y_box>>
       ELSE /\ selected_points' = <<>>
            /\ dragged_points' = AsList([i \in 1..Len(dragged_points) |->
                                    left_at(selected_points, dragged_points[i])])
            /\ Redraw(without(points, selected_points, 1), <<>>, edit_lock_on)
            /\ last_op' = "remove"
    /\ UNCHANGED outside_editor
    /\ UNCHANGED <<current, elem_lock, edit_lock_on, dragvars,
                   actionXUndo, actionYUndo>>

\* The positions of the points of the curve with xmin <= x <= xmax, in curve
\* order, from position k on.
RECURSIVE in_span(_, _, _, _)
in_span(pts, xmin, xmax, k) ==
    IF k > Len(pts) THEN <<>>
    ELSE IF xmin <= pts[k].x /\ pts[k].x <= xmax
         THEN <<k>> \o in_span(pts, xmin, xmax, k + 1)
         ELSE in_span(pts, xmin, xmax, k + 1)

\* The ends of a span: the x of a point of the curve, or a place left of the axis.
SpanEnds == {points[i].x : i \in 1..Len(points)} \cup {0 - 1}

\* on_span_select(xmin, xmax)
on_span_select(xmin, xmax) ==
    /\ current
    /\ xmin <= xmax
    /\ selected_points' = in_span(points, xmin, xmax, 1)
    /\ Redraw(points, selected_points', edit_lock_on)
    /\ last_op' = "other"
    /\ UNCHANGED outside_editor
    /\ UNCHANGED <<current, elem_lock, edit_lock_on, dragged_points,
                   dragvars, actionXUndo, actionYUndo>>

\* The values the user can enter in the x box and in the y box.
XEntries == {v \in 0..MaxX : v % XRes = 0}
YEntries == YMin..MaxY

\* The user enters x in the x box: valueChanged, set_selected_point_x().
enter_x(x) ==
    LET st == set_selected_point_x(
                  St(points, selected_points, edit_lock_on,
                     [x_box EXCEPT !.value = x], y_box))
    IN  /\ x_box.enabled
        /\ x # x_box.value
        /\ points' = st.points
        /\ x_box' = st.x_box
        /\ y_box' = st.y_box
        /\ UNCHANGED outside_editor
        /\ UNCHANGED <<current, elem_lock, edit_lock_on, selected_points,
                       dragged_points, dragvars, actionXUndo, actionYUndo>>

\* The user enters y in the y box: valueChanged, set_selected_point_y().
enter_y(y) ==
    LET st == set_selected_point_y(
                  St(points, selected_points, edit_lock_on,
                     x_box, [y_box EXCEPT !.value = y]))
    IN  /\ y_box.enabled
        /\ y # y_box.value
        /\ points' = st.points
        /\ x_box' = st.x_box
        /\ y_box' = st.y_box
        /\ UNCHANGED outside_editor
        /\ UNCHANGED <<current, elem_lock, edit_lock_on, selected_points,
                       dragged_points, dragvars, actionXUndo, actionYUndo>>

\* The entries of all undo stacks of the curve together.
RECURSIVE undo_entries(_)
undo_entries(pts) ==
    IF pts = <<>> THEN 0
    ELSE Len(Head(pts).previous_x) + Len(Head(pts).previous_y) + undo_entries(Tail(pts))

\* The clipboard texts tried (self.ratio_str) and float(self.ratio_str), which
\* raises ValueError for a text that is no number.
ClipboardTexts == {"0", "2", "abc"}
is_float(text) == text \in {"0", "2"}
float(text) == IF text = "0" THEN 0 ELSE 2

\* round(ratio * coord, 3) for a y: 0.001 is Round3Y units.
round3_y(v) == ((2 * v + Round3Y) \div (2 * Round3Y)) * Round3Y

\* Sensitivity of C20: a multiply that records the new value, not the old one.
after_multiply_x_late(ratio_str) ==
    LET p   == selected_points[1]
        pts == [points EXCEPT ![p].previous_x =
                    Append(@, float(ratio_str) * x_box.value)]
    IN  XSetValue(St(pts, selected_points, edit_lock_on, x_box, y_box),
                  float(ratio_str) * x_box.value)

\* What __multiply_coordinate(self.x_coordinate_box) makes of the editor for a
\* ratio float() accepts: the x of the first selected point is appended to its
\* previous_x, then setValue(round(ratio * coord, 3)) with coord the value of
\* the box.  round(ratio * coord, 3) of an x of the box times a whole ratio is
\* that product.
after_multiply_x(ratio_str) ==
    LET p   == selected_points[1]
        pts == [points EXCEPT ![p].previous_x = Append(@, points[p].x)]
    IN  XSetValue(St(pts, selected_points, edit_lock_on, x_box, y_box),
                  float(ratio_str) * x_box.value)

\* The same for the y box.
after_multiply_y(ratio_str) ==
    LET p   == selected_points[1]
        pts == [points EXCEPT ![p].previous_y = Append(@, points[p].y)]
    IN  YSetValue(St(pts, selected_points, edit_lock_on, x_box, y_box),
                  round3_y(float(ratio_str) * y_box.value))

\* Sensitivity of C23: a multiply that records the value of the point before
\* float() has accepted the clipboard text.
multiply_x_early(ratio_str) ==
    /\ x_box.enabled
    /\ undo_entries(points) < MaxUndo
    /\ actionXUndo' = TRUE
    /\ IF ~is_float(ratio_str)
       THEN /\ points' = [points EXCEPT ![selected_points[1]].previous_x =
                              Append(@, points[selected_points[1]].x)]
            /\ UNCHANGED <<x_box, y_box>>
       ELSE LET st == after_multiply_x(ratio_str)
            IN  /\ points' = st.points
                /\ x_box' = st.x_box
                /\ y_box' = st.y_box
    /\ UNCHANGED outside_editor
    /\ UNCHANGED <<current, elem_lock, edit_lock_on, selected_points,
                   dragged_points, dragvars, actionYUndo>>

\* __multiply_coordinate(self.x_coordinate_box) with ratio_str in the clipboard.
multiply_x(ratio_str) ==
    /\ x_box.enabled
    /\ IF ~is_float(ratio_str)
       THEN UNCHANGED <<points, x_box, y_box, actionXUndo>>
       ELSE LET st == after_multiply_x(ratio_str)
            IN  /\ undo_entries(points) < MaxUndo
                /\ actionXUndo' = TRUE
                /\ points' = st.points
                /\ x_box' = st.x_box
                /\ y_box' = st.y_box
    /\ UNCHANGED outside_editor
    /\ UNCHANGED <<current, elem_lock, edit_lock_on, selected_points,
                   dragged_points, dragvars, actionYUndo>>

\* __multiply_coordinate(self.y_coordinate_box) with ratio_str in the clipboard.
multiply_y(ratio_str) ==
    /\ y_box.enabled
    /\ IF ~is_float(ratio_str)
       THEN UNCHANGED <<points, x_box, y_box, actionYUndo>>
       ELSE LET st == after_multiply_y(ratio_str)
            IN  /\ undo_entries(points) < MaxUndo
                /\ actionYUndo' = TRUE
                /\ points' = st.points
                /\ x_box' = st.x_box
                /\ y_box' = st.y_box
    /\ UNCHANGED outside_editor
    /\ UNCHANGED <<current, elem_lock, edit_lock_on, selected_points,
                   dragged_points, dragvars, actionXUndo>>

\* list.pop() of undo raises IndexError when the stack of the first selected
\* point is empty; nothing has been changed by then.
undo_raises_x == points[selected_points[1]].previous_x = <<>>
undo_raises_y == points[selected_points[1]].previous_y = <<>>

\* What undo(self.x_coordinate_box) makes of the editor st when the stack is
\* not empty: pops previous_x of the first selected point and setValue(old).
after_undo_x(st) ==
    LET p   == st.sel[1]
        old == Last(st.points[p].previous_x)
    IN  XSetValue([st EXCEPT !.points[p].previous_x = SubSeq(@, 1, Len(@) - 1)],
                  old)

\* The same for the y box.
after_undo_y(st) ==
    LET p   == st.sel[1]
        old == Last(st.points[p].previous_y)
    IN  YSetValue([st EXCEPT !.points[p].previous_y = SubSeq(@, 1, Len(@) - 1)],
                  old)

\* undo(self.x_coordinate_box): the action is disabled when the pop empties
\* the stack.
undo_x ==
    LET p  == selected_points[1]
        st == after_undo_x(St(points, selected_points, edit_lock_on, x_box, y_box))
    IN  /\ x_box.enabled
        /\ actionXUndo
        /\ IF undo_raises_x
           THEN UNCHANGED <<points, x_box, y_box, actionXUndo>>
           ELSE /\ actionXUndo' = (Len(points[p].previous_x) > 1)
                /\ points' = st.points
                /\ x_box' = st.x_box
                /\ y_box' = st.y_box
        /\ UNCHANGED outside_editor
        /\ UNCHANGED <<current, elem_lock, edit_lock_on, selected_points,
                       dragged_points, dragvars, actionYUndo>>

\* undo(self.y_coordinate_box)
undo_y ==
    LET p  == selected_points[1]
        st == after_undo_y(St(points, selected_points, edit_lock_on, x_box, y_box))
    IN  /\ y_box.enabled
        /\ actionYUndo
        /\ IF undo_raises_y
           THEN UNCHANGED <<points, x_box, y_box, actionYUndo>>
           ELSE /\ actionYUndo' = (Len(points[p].previous_y) > 1)
                /\ points' = st.points
                /\ x_box' = st.x_box
                /\ y_box' = st.y_box
        /\ UNCHANGED outside_editor
        /\ UNCHANGED <<current, elem_lock, edit_lock_on, selected_points,
                       dragged_points, dragvars, actionXUndo>>

\* Pointer x positions of a motion event: the grid of the x box.
GridX == {v \in 0..MaxX : v % XRes = 0}

\* No drag is open: the left button is up.  While it is held on a point the
\* pointer source delivers motion and release only, and the release empties
\* dragged_points.
idle == dragged_points = <<>>

Next ==
    \/ idle /\ choose_element
    \/ \E yes \in BOOLEAN : idle /\ unlock_edit(yes)
    \/ \E i \in 1..MaxPoints : idle /\ on_click_point(i)
    \/ idle /\ on_click_ctrl_empty
    \/ \E x \in PointerX, y \in PointerY :
            idle /\ on_click_line(x, y) /\ InWindow(points')
    \/ \E ex \in GridX, ey \in PointerY : on_motion(ex, ey) /\ InWindow(points')
    \/ on_release
    \/ idle /\ remove_points
    \/ \E xmin \in SpanEnds, xmax \in SpanEnds : idle /\ on_span_select(xmin, xmax)
    \/ \E x \in XEntries :
            idle /\ enter_x(x) /\ InWindow(points') /\ last_op' = "other"
    \/ \E y \in YEntries : idle /\ enter_y(y) /\ last_op' = "other"
    \/ \E r \in ClipboardTexts :
            idle /\ multiply_x(r) /\ InWindow(points') /\ last_op' = "other"
    \/ \E r \in ClipboardTexts :
            idle /\ multiply_y(r) /\ InWindow(points') /\ last_op' = "other"
    \/ idle /\ undo_x /\ InWindow(points') /\ last_op' = "other"
    \/ idle /\ undo_y /\ last_op' = "other"

Spec == Init /\ [][Next]_vars

\* ------------------------------------------------- drags in a wider window
\* The pointer operations alone, with the curve followed up to MaxWideX: a
\* dragged group can then pass a last point that the edit lock keeps at the x
\* of the default curve.
InWide(pts) == \A i \in 1..Len(pts) : pts[i].x \in 0..MaxWideX /\ pts[i].y \in 0..MaxY

NextDrag ==
    \/ idle /\ choose_element
    \/ \E yes \in BOOLEAN : idle /\ unlock_edit(yes)
    \/ \E i \in 1..MaxPoints : idle /\ on_click_point(i)
    \/ \E x \in PointerX, y \in PointerY :
            idle /\ on_click_line(x, y) /\ InWide(points')
    \/ \E ex \in GridX, ey \in PointerY : on_motion(ex, ey) /\ InWide(points')
    \/ on_release
    \/ idle /\ remove_points
    \/ \E xmin \in SpanEnds, xmax \in SpanEnds : idle /\ on_span_select(xmin, xmax)

SpecDrag == Init /\ [][NextDrag]_vars

\* ------------------------------------------------------- add_point alone
\* add_point on curves of two points anywhere in 0..MaxAddX, with candidates
\* at every x of that range: an element simulation is current, its curve is
\* in ascending order with gaps of x_res or more, nothing is selected.
InitAdd ==
    /\ current = TRUE
    /\ elem_lock = FALSE
    /\ edit_lock_on = FALSE
    /\ \E a \in 0..MaxAddX, b \in 0..MaxAddX, ya \in YMin..MaxY, yb \in YMin..MaxY :
            /\ b - a >= XRes
            /\ points = <<Point(a, ya), Point(b, yb)>>
    /\ selected_points = <<>>
    /\ dragged_points = <<>>
    /\ click_locations = <<>>
    /\ x_dist_left = <<>>
    /\ x_dist_right = <<>>
    /\ y_dist_lowest = <<>>
    /\ lowest_dr_p_i = 0
    /\ x_box = [value |-> 0, enabled |-> FALSE]
    /\ y_box = [value |-> YMin, enabled |-> FALSE]
    /\ actionXUndo = FALSE
    /\ actionYUndo = FALSE
    /\ last_op = "other"
    /\ outside_at_rest

NextAdd ==
    \/ \E x \in 0..MaxAddX, y \in PointerY : idle /\ on_click_line(x, y)
    \/ \E i \in 1..MaxPoints : idle /\ on_click_point(i)
    \/ on_release
    \/ idle /\ remove_points

SpecAdd == InitAdd /\ [][NextAdd]_vars

\* ---------------------------------------------------- the entries alone
\* The x and y entries, multiply and undo on curves as a recoil file can hold
\* them: two or three points anywhere in 0..MaxEntryX, on or off the grid of the
\* x box, in ascending order with gaps of x_res or more; an element simulation
\* is current, locked or not, and nothing is selected.
EntryCurves ==
    {<<Point(a, DefaultY), Point(b, DefaultY)>> :
        a \in 0..MaxEntryX, b \in 0..MaxEntryX}
    \cup {<<Point(a, DefaultY), Point(b, DefaultY), Point(c, DefaultY)>> :
        a \in 0..MaxEntryX, b \in 0..MaxEntryX, c \in 0..MaxEntryX}

InitEntry ==
    /\ current = TRUE
    /\ elem_lock \in BOOLEAN
    /\ edit_lock_on = elem_lock
    /\ points \in {pts \in EntryCurves :
            \A i \in 1..(Len(pts) - 1) : pts[i + 1].x - pts[i].x >= XRes}
    /\ selected_points = <<>>
    /\ dragged_points = <<>>
    /\ click_locations = <<>>
    /\ x_dist_left = <<>>
    /\ x_dist_right = <<>>
    /\ y_dist_lowest = <<>>
    /\ lowest_dr_p_i = 0
    /\ x_box = [value |-> 0, enabled |-> FALSE]
    /\ y_box = [value |-> YMin, enabled |-> FALSE]
    /\ actionXUndo = FALSE
    /\ actionYUndo = FALSE
    /\ last_op = "other"
    /\ outside_at_rest

InEntry(pts) ==
    \A i \in 1..Len(pts) : pts[i].x \in 0..MaxEntryX /\ pts[i].y \in 0..MaxEntryY

\* The values entered: every x of the grid of the x box, and three y, one of
\* them between two multiples of 0.001.
WideXEntries == {v \in 0..MaxEntryX : v % XRes = 0}
WideYEntries == {YMin, Round3Y \div 2 + 1, Round3Y}

NextEntry ==
    \/ \E i \in 1..MaxPoints : idle /\ on_click_point(i)
    \/ on_release
    \/ \E xmin \in SpanEnds, xmax \in SpanEnds : idle /\ on_span_select(xmin, xmax)
    \/ \E x \in WideXEntries :
            idle /\ enter_x(x) /\ InEntry(points') /\ last_op' = "set_x"
    \/ \E y \in WideYEntries : idle /\ enter_y(y) /\ last_op' = "set_y"
    \/ \E r \in ClipboardTexts :
            /\ idle /\ multiply_x(r) /\ InEntry(points')
            /\ last_op' = (IF is_float(r) THEN "multiply_x" ELSE "multiply_rejected")
    \/ \E r \in ClipboardTexts :
            /\ idle /\ multiply_y(r) /\ InEntry(points')
            /\ last_op' = (IF is_float(r) THEN "multiply_y" ELSE "multiply_rejected")
    \/ /\ idle /\ undo_x /\ InEntry(points')
       /\ last_op' = (IF undo_raises_x THEN "undo_raised" ELSE "undo_x")
    \/ /\ idle /\ undo_y
       /\ last_op' = (IF undo_raises_y THEN "undo_raised" ELSE "undo_y")

SpecEntry == InitEntry /\ [][NextEntry]_vars

\* ------------------------------------------- presses after a lost release
\* Presses, motions and releases on the points of the curve, where a release
\* can arrive while the pan or the zoom tool is checked; the next press comes
\* with the button up, that is with no drag open or right after such a release;
\* so do the removal of the selected points and a span selection.  A press is
\* followed while every point of the drag list is still in the curve and the
\* list stays within MaxDragged.  The pointer stays at the height of the
\* default curve.
button_up == idle \/ last_op = "release_ignored"

NextLost ==
    \/ idle /\ choose_element
    \/ \E i \in 1..MaxPoints :
            /\ button_up
            /\ ~Contains(dragged_points, 0)
            /\ on_click_point(i)
            /\ Len(dragged_points') <= MaxDragged
    \/ idle /\ on_click_ctrl_empty
    \/ idle /\ on_click_missed
    \/ \E x \in PointerX, y \in {MaxY} :
            idle /\ on_click_line(x, y) /\ InWindow(points')
    \/ \E ex \in GridX, ey \in {MaxY} : on_motion(ex, ey) /\ InWindow(points')
    \/ on_release
    \/ on_release_ignored
    \/ button_up /\ remove_points
    \/ \E xmin \in SpanEnds, xmax \in SpanEnds :
            button_up /\ on_span_select(xmin, xmax)

SpecLost == Init /\ [][NextLost]_vars

\* ------------------------------------------------- the md5 helpers alone
\* The helpers of tests.utils on every list of up to MaxFiles files of up to
\* MaxFileLen bytes.
InitMd5 ==
    /\ InitEditor
    /\ elem_lock = FALSE
    /\ file_paths \in FileLists
    /\ md5_result = [call |-> "none"]
    /\ element_simulation \in {es \in ElementSimulations :
            es.simulation_type = "ERD" /\ es.simulation_mode = "narrow"}
    /\ settings = shown(element_simulation)
    /\ changed = "none"
    /\ edits = 0

NextMd5 ==
    \/ call_get_md5_for_files
    \/ \E checksum \in Checksums(file_paths) : call_check_md5_for_files(checksum)

SpecMd5 == InitMd5 /\ [][NextMd5]_vars

\* --------------------------------------------- the settings widget alone
\* A settings widget opened on an element simulation, the user editing up to
\* MaxEdits fields, and its caller asking values_changed and update_settings
\* in any order.
InitSettings ==
    /\ InitEditor
    /\ elem_lock = FALSE
    /\ file_paths = <<>>
    /\ md5_result = [call |-> "none"]
    /\ element_simulation \in ElementSimulations
    /\ settings = shown(element_simulation)
    /\ changed = "none"
    /\ edits = 0

NextSettings ==
    \/ \E field \in DOMAIN FieldValues :
            \E value \in FieldValues[field] : edit_field(field, value)
    \/ update_settings
    \/ call_values_changed

SpecSettings == InitSettings /\ [][NextSettings]_vars

\* ----------------------------------------------------------------- claims

\* C1: in every reachable state the points of the curve are in ascending x
\* order: no point has a larger x than a point that follows it in the curve.
C1_AscendingX ==
    \A i \in 1..(Len(points) - 1) : points[i].x <= points[i + 1].x

\* C2: in every reachable state every pair of adjacent points of the curve has
\* x-coordinates at least x_res apart.
C2_MinimumGap ==
    \A i \in 1..(Len(points) - 1) : points[i + 1].x - points[i].x >= XRes

\* C3: in every reachable state the curve has at least 2 points.
C3_AtLeastTwoPoints == Len(points) >= 2

\* C3 at work: remove_points was asked with the whole two-point curve selected
\* and refused.
C3_WholeCurveRefused ==
    /\ last_op = "remove_rejected"
    /\ Len(points) = 2
    /\ Len(selected_points) = 2

\* C4: while the edit lock is on, no step of the editor changes the x of the
\* last point of the curve.
C4_LockedLastX ==
    [][(edit_lock_on /\ edit_lock_on') => Last(points').x = Last(points).x]_vars

\* C5: in every reachable state no point of the curve has y below y_min.
C5_YFloor == \A i \in 1..Len(points) : points[i].y >= YMin

\* C6: after every on_motion step of a drag every point of the curve has
\* y >= y_min.
C6_FloorAfterDrag ==
    last_op = "motion" => \A i \in 1..Len(points) : points[i].y >= YMin

\* C7: remove_points refuses exactly when fewer than two points would be left
\* and then changes neither curve nor selection; otherwise the curve becomes
\* its unselected points, in their order and with their coordinates, and the
\* selection becomes empty.
C7_RemoveExactly ==
    [][last_op' \in {"remove", "remove_rejected"} =>
          IF Len(points) - Len(selected_points) < 2
          THEN /\ last_op' = "remove_rejected"
               /\ points' = points
               /\ selected_points' = selected_points
          ELSE /\ last_op' = "remove"
               /\ selected_points' = <<>>
               /\ Len(points') = Len(points) - Len(selected_points)
               /\ \A k \in 1..Len(points) :
                      ~Contains(selected_points, k) =>
                          points'[k - Cardinality({j \in Range(selected_points) : j < k})]
                              = points[k]]_vars

\* C7 at work: a removal was accepted and left two points, neither of them at
\* the x the x box still shows, the x of a point that was taken out.
C7_PointTakenOut ==
    /\ last_op = "remove"
    /\ Len(points) = 2
    /\ selected_points = <<>>
    /\ x_box.value = XRes
    /\ points[1].x # XRes
    /\ points[2].x # XRes

\* C8: a rejected add_point and a rejected remove_points leave the curve as it
\* was: the same points in the same order with the same coordinates.
C8_RejectionKeepsCurve ==
    [][last_op' \in {"add_rejected", "remove_rejected"} => points' = points]_vars

\* C9: add_point with a candidate closer than x_res to one of its neighbors
\* puts the new point at x_res from that neighbor, x_res or more from the other
\* one, whenever the neighbors are 2 * x_res or more apart, and refuses the
\* point only when they are closer than that.
C9_SnapWhenRoom ==
    \A x \in 0..MaxAddX :
        LET q  == place_of(points, x)
            lx == points[q - 1].x
            rx == points[q].x
            r  == add_point(points, x, YMin)
        IN  (q > 1 /\ q <= Len(points) /\ (x - lx < XRes \/ rx - x < XRes)) =>
                IF rx - lx >= 2 * XRes
                THEN /\ r.ok
                     /\ r.points[q].x = (IF x - lx < XRes THEN lx + XRes ELSE rx - XRes)
                     /\ r.points[q].x - lx >= XRes
                     /\ rx - r.points[q].x >= XRes
                ELSE ~r.ok

\* C10: add_point with a candidate x_res or more from both of its neighbors
\* succeeds, the new point has exactly the candidate's (x, y) and lies between
\* the two neighbors, and every other point keeps its coordinates and its
\* place among the others.
C10_InsertedAsRequested ==
    \A x \in 0..MaxAddX, y \in PointerY :
        LET q  == place_of(points, x)
            lx == points[q - 1].x
            rx == points[q].x
            r  == add_point(points, x, y)
        IN  (q > 1 /\ q <= Len(points) /\ x - lx >= XRes /\ rx - x >= XRes) =>
                /\ r.ok
                /\ Len(r.points) = Len(points) + 1
                /\ r.points[q] = Point(x, y)
                /\ r.points[q - 1].x <= x
                /\ x <= r.points[q + 1].x
                /\ \A k \in 1..Len(points) :
                       r.points[IF k < q THEN k ELSE k + 1] = points[k]

\* C10 at work: a press on the line at (4, y_min), off the grid of the x box,
\* added a point, and the drag snapshot taken right after add_point holds the
\* new point at exactly (4, y_min).
C10_AddedOffGrid ==
    /\ last_op = "add"
    /\ Len(points) = 3
    /\ click_locations = <<<<4, YMin, 4, YMin>>>>

\* The curve is a default curve [(0, 1), (35, 1)]: two points at the default y,
\* the first at x = 0, the second further than 3 * x_res from it.
default_like(pts) ==
    /\ Len(pts) = 2
    /\ pts[1].x = 0 /\ pts[1].y = DefaultY
    /\ pts[2].x >= 3 * XRes /\ pts[2].y = DefaultY

\* C11 as stated: on the curve [(0, 1), (35, 1)] add_point with a candidate
\* closer than x_res to the first point (x = 0.005) is rejected: no point is
\* added and the curve stays as it was.
C11_NearLeftRejected ==
    \A x \in 1..(XRes - 1), y \in PointerY :
        default_like(points) =>
            /\ ~add_point(points, x, y).ok
            /\ add_point(points, x, y).points = points

\* C11 as amended: on the curve [(0, 1), (35, 1)] add_point with a candidate
\* closer than x_res to the first point (x = 0.005) is accepted and the new
\* point is put at exactly x_res from the first point, with the candidate's y:
\* the curve becomes [(0, 1), (0.01, 0.5), (35, 1)].
C11_NearLeftSnapped ==
    \A x \in 1..(XRes - 1), y \in PointerY :
        default_like(points) =>
            /\ add_point(points, x, y).ok
            /\ add_point(points, x, y).points =
                   <<points[1], Point(XRes, y), points[2]>>

\* C11 at work: a press on the line of such a curve at x = 1, closer than x_res
\* to the first point, added a point, and the drag snapshot taken right after
\* add_point holds the new point at x_res.
C11_AddedAtXRes ==
    /\ last_op = "add"
    /\ Len(points) = 3
    /\ points[1].x = 0
    /\ points[3].x >= 3 * XRes
    /\ points[1].y = DefaultY /\ points[3].y = DefaultY
    /\ click_locations = <<<<XRes, YMin, 1, YMin>>>>

\* C12: after every accepted add_point, which leaves the new point as the
\* selection, remove_points does not refuse and what it leaves of the curve is
\* the point sequence from before the add_point: the same points in the same
\* order with the same coordinates.
C12_AddThenRemove ==
    [][last_op' = "add" =>
          /\ ~too_few(points', selected_points')
          /\ without(points', selected_points', 1) = points]_vars

\* C13: with the edit lock off, an x entered for the first selected point
\* leaves that point at the requested x when it lies strictly inside the
\* neighbors (or on the open side of a single neighbor), at x_res right of the
\* left neighbor when the request is at or left of it, and at x_res left of the
\* right neighbor when the request is at or right of it; the point does not
\* pass a neighbor and no other point changes.
C13_AppliedX ==
    \A x \in WideXEntries :
        (~edit_lock_on /\ selected_points # <<>> /\ x_box.enabled /\ x # x_box.value) =>
            LET p    == selected_points[1]
                L    == get_left_neighbor(points, p)
                R    == get_right_neighbor(points, p)
                lx   == points[L].x
                rx   == points[R].x
                want == IF L = 0 THEN (IF x < rx THEN x ELSE rx - XRes)
                        ELSE IF R = 0 THEN (IF x > lx THEN x ELSE lx + XRes)
                        ELSE IF lx < x /\ x < rx THEN x
                        ELSE IF x <= lx THEN lx + XRes
                        ELSE rx - XRes
                st   == set_selected_point_x(
                            St(points, selected_points, edit_lock_on,
                               [x_box EXCEPT !.value = x], y_box))
            IN  /\ st.points[p].x = want
                /\ L # 0 => st.points[L].x <= st.points[p].x
                /\ R # 0 => st.points[p].x <= st.points[R].x
                /\ \A k \in 1..Len(points) : k # p => st.points[k] = points[k]

\* C14: a step that keeps the number of points and ends with the edit lock on
\* and the last point of the curve bound to the x entry (the first selected
\* point) changes the x of no point: whatever value reaches the x entry, the
\* last point keeps its x and so does the rest of the curve.
C14_LockedEntryIgnored ==
    [][(/\ edit_lock_on /\ edit_lock_on'
        /\ selected_points' # <<>>
        /\ selected_points'[1] = Len(points')
        /\ Len(points') = Len(points)) =>
            \A k \in 1..Len(points) : points'[k].x = points[k].x]_vars

\* C15: in every on_motion step with the edit lock on and the last point of the
\* curve among the dragged points, that point keeps the x it had, and its y is
\* the y it had at the press moved by the pointer's y travel, or, when that
\* takes a dragged point below y_min, y_min plus its height at the press over
\* the lowest dragged point.
C15_LockedLastInDrag ==
    [][(/\ last_op' = "motion"
        /\ edit_lock_on
        /\ Contains(dragged_points, Len(points))) =>
            LET i == IndexOf(dragged_points, Len(points))
                n == Len(click_locations)
            IN  /\ Last(points').x = Last(points).x
                /\ \E ey \in PointerY :
                       Last(points').y =
                           IF \E j \in 1..n :
                                  click_locations[j][2] + ey - click_locations[j][4] < YMin
                           THEN YMin + click_locations[i][2]
                                - (CHOOSE m \in {click_locations[j][2] : j \in 1..n} :
                                      \A j \in 1..n : m <= click_locations[j][2])
                           ELSE click_locations[i][2] + ey - click_locations[i][4]]_vars

\* C15 at work: under the edit lock a group of two dragged points that ends in
\* the last point of the curve was moved: the first went to another x and the
\* last point to another y, at the x it had at the press.
C15_LastHeldGroupMoved ==
    /\ last_op = "motion"
    /\ edit_lock_on
    /\ Len(dragged_points) = 2
    /\ dragged_points[2] = Len(points)
    /\ points[dragged_points[1]].x # click_locations[1][1]
    /\ Last(points).x = click_locations[2][1]
    /\ Last(points).y # click_locations[2][2]

\* C16: whenever a drag is open and for every pointer position: if the leftmost
\* dragged point, moved by the pointer's x travel, comes to x_res or less from
\* the left neighbor of the group, on_motion puts it at x_res from that
\* neighbor and every other dragged point at its distance at the press from
\* the leftmost; otherwise, if the rightmost comes to x_res or less from the
\* right neighbor, the rightmost is put at x_res from it and the others at
\* their distance at the press from the rightmost; and after the step the
\* group is x_res or more inside both neighbors.  The last point of the curve
\* is left out while the edit lock is on: it keeps its x (C15).
C16_NeighborCollision ==
    \A ex \in GridX, ey \in PointerY :
        dragging =>
            LET dr  == dragged_points
                n   == Len(dr)
                cl  == click_locations
                L   == get_left_neighbor(points, dr[1])
                R   == get_right_neighbor(points, dr[n])
                lx  == points[L].x
                rx  == points[R].x
                new == after_motion(ex, ey).points
                held(j) == edit_lock_on /\ dr[j] = Len(points)
            IN  /\ IF L # 0 /\ cl[1][1] + ex - cl[1][3] <= lx + XRes
                   THEN \A j \in 1..n :
                            ~held(j) => new[dr[j]].x = lx + XRes + (cl[j][1] - cl[1][1])
                   ELSE IF R # 0 /\ cl[n][1] + ex - cl[n][3] >= rx - XRes
                   THEN \A j \in 1..n :
                            ~held(j) => new[dr[j]].x = rx - XRes - (cl[n][1] - cl[j][1])
                   ELSE TRUE
                /\ L # 0 => new[dr[1]].x - lx >= XRes
                /\ R # 0 => rx - new[dr[n]].x >= XRes

\* C17: whenever a drag is open, with the edit lock on or off, and for every
\* pointer position, after on_motion any two dragged points are as far apart in
\* x and in y as they were at the press.
C17_RigidTranslation ==
    \A ex \in GridX, ey \in PointerY :
        dragging =>
            LET dr  == dragged_points
                cl  == click_locations
                new == after_motion(ex, ey).points
            IN  \A i \in 1..Len(dr), j \in 1..Len(dr) :
                    (dr[i] # 0 /\ dr[j] # 0) =>
                        /\ new[dr[i]].x - new[dr[j]].x = cl[i][1] - cl[j][1]
                        /\ new[dr[i]].y - new[dr[j]].y = cl[i][2] - cl[j][2]

\* C18: whenever a drag is open and for every pointer position, after on_motion
\* every point of the curve has x >= 0; and when the leftmost dragged point is
\* the first point of the curve and the pointer's x travel takes it below 0, it
\* is put at x = 0 and every other dragged point at its distance at the press
\* from it (but for the last point of the curve while the edit lock is on,
\* which keeps its x).
C18_AxisLimit ==
    \A ex \in GridX, ey \in PointerY :
        dragging =>
            LET dr  == dragged_points
                cl  == click_locations
                new == after_motion(ex, ey).points
            IN  /\ \A k \in 1..Len(new) : new[k].x >= 0
                /\ (dr[1] = 1 /\ cl[1][1] + ex - cl[1][3] < 0) =>
                       \A j \in 1..Len(dr) :
                           (dr[j] # 0 /\ ~(edit_lock_on /\ dr[j] = Len(points))) =>
                               new[dr[j]].x = cl[j][1] - cl[1][1]

\* C19: a drag is begun by a press, which fills the drag list with the
\* selection and records the click origin of every dragged point; on_motion
\* changes the curve only while the drag list and the click origins are there,
\* and leaves both as they are; and the step that follows an open drag and is
\* not a motion, the release, empties the drag list, after which no motion
\* changes a point until the next press.
C19_DragSequence ==
    [][/\ (dragged_points = <<>> /\ dragged_points' # <<>>) =>
              /\ selected_points' # <<>>
              /\ dragged_points' = selected_points'
              /\ Len(click_locations') = Len(dragged_points')
       /\ last_op' = "motion" =>
              /\ dragged_points # <<>>
              /\ click_locations # <<>>
              /\ dragged_points' = dragged_points
              /\ click_locations' = click_locations
       /\ (dragged_points # <<>> /\ last_op' # "motion") => dragged_points' = <<>>
       /\ (dragged_points = <<>> /\ dragged_points' = <<>>) =>
              (last_op' # "motion")]_vars

\* C19 at work: the two points of the default curve, selected together, were
\* dragged x_res to the right and released: the drag list is empty again and
\* the points are where the motion left them.
C19_DraggedAndReleased ==
    /\ dragged_points = <<>>
    /\ click_locations = <<>>
    /\ last_op = "other"
    /\ selected_points = <<1, 2>>
    /\ Len(points) = 2
    /\ points[1].x = XRes
    /\ points[2].x = DefaultX + XRes

\* C20 as stated: multiply on an axis of the first selected point appends the
\* point's value of that axis to the undo stack of the axis and leaves the
\* coordinate at round(value * ratio, 3).
C20_MultiplySetsRounded ==
    \A r \in ClipboardTexts :
        (is_float(r) /\ selected_points # <<>>) =>
            LET p == selected_points[1]
            IN  /\ x_box.enabled =>
                       LET st == after_multiply_x(r)
                       IN  /\ st.points[p].previous_x =
                                  Append(points[p].previous_x, points[p].x)
                           /\ st.points[p].x = float(r) * points[p].x
                /\ y_box.enabled =>
                       LET st == after_multiply_y(r)
                       IN  /\ st.points[p].previous_y =
                                  Append(points[p].previous_y, points[p].y)
                           /\ st.points[p].y = round3_y(float(r) * points[p].y)

\* C20 as amended: multiply appends the point's value of the axis to the undo
\* stack of the axis and sets the entry to round(entry value * ratio, 3), which
\* the entry shows with its decimals and not below its minimum; when that
\* changes the value of the entry, the coordinate becomes the new value of the
\* entry, for x provided it lies strictly between the neighbors of the point.
C20_MultiplyThroughEntry ==
    \A r \in ClipboardTexts :
        (is_float(r) /\ selected_points # <<>>) =>
            LET p  == selected_points[1]
                L  == get_left_neighbor(points, p)
                R  == get_right_neighbor(points, p)
                vx == XBoxValue(float(r) * x_box.value)
                vy == YBoxValue(round3_y(float(r) * y_box.value))
            IN  /\ x_box.enabled =>
                       LET st == after_multiply_x(r)
                       IN  /\ st.points[p].previous_x =
                                  Append(points[p].previous_x, points[p].x)
                           /\ (/\ vx # x_box.value
                               /\ L # 0 => points[L].x < vx
                               /\ R # 0 => vx < points[R].x) =>
                                  /\ st.points[p].x = vx
                                  /\ st.x_box.value = vx
                /\ y_box.enabled =>
                       LET st == after_multiply_y(r)
                       IN  /\ st.points[p].previous_y =
                                  Append(points[p].previous_y, points[p].y)
                           /\ vy # y_box.value =>
                                  /\ st.points[p].y = vy
                                  /\ st.y_box.value = vy

\* C20 at work: the second point of a two-point curve, at x_res, was multiplied
\* by 2: it is at 2 * x_res with x_res on its x undo stack and undo enabled.
C20_DoubledWithUndo ==
    /\ last_op = "multiply_x"
    /\ Len(points) = 2
    /\ selected_points = <<2>>
    /\ points[2].x = 2 * XRes
    /\ points[2].previous_x = <<XRes>>
    /\ actionXUndo

\* C21: multiply followed at once by undo on the same point and axis puts the
\* coordinate back at its value before the multiply and the undo stack of the
\* axis back as it was; an undo that empties the stack disables undo.
C21_MultiplyThenUndo ==
    /\ \A r \in ClipboardTexts :
            (is_float(r) /\ selected_points # <<>>) =>
                LET p == selected_points[1]
                IN  /\ x_box.enabled =>
                           LET st == after_undo_x(after_multiply_x(r))
                           IN  /\ st.points[p].x = points[p].x
                               /\ st.points[p].previous_x = points[p].previous_x
                    /\ y_box.enabled =>
                           LET st == after_undo_y(after_multiply_y(r))
                           IN  /\ st.points[p].y = points[p].y
                               /\ st.points[p].previous_y = points[p].previous_y
    /\ (last_op = "undo_x" /\ points[selected_points[1]].previous_x = <<>>)
            => ~actionXUndo
    /\ (last_op = "undo_y" /\ points[selected_points[1]].previous_y = <<>>)
            => ~actionYUndo

\* C22: an undo on a point whose undo stack for the axis is empty raises no
\* error (and changes nothing): no step is an undo whose pop() raised.
C22_EmptyUndoIsNoOp == [][last_op' # "undo_raised"]_vars

\* C23: a multiply whose clipboard text is no number changes neither the curve
\* with its undo stacks, nor the entries, nor the selection, nor the enabled
\* state of the two undo actions.
C23_InvalidMultiplier ==
    [][last_op' = "multiply_rejected" =>
           UNCHANGED <<points, x_box, y_box, selected_points,
                       actionXUndo, actionYUndo>>]_vars

\* C23 at work: a multiply was rejected on a point that has an earlier
\* multiply on its x undo stack, with the x undo enabled and the y undo not.
C23_RejectedAfterMultiply ==
    /\ last_op = "multiply_rejected"
    /\ selected_points # <<>>
    /\ points[selected_points[1]].previous_x # <<>>
    /\ actionXUndo
    /\ ~actionYUndo

\* C24: whenever a drag is open and for every pointer position that brings no
\* dragged point to x_res or less from a neighbor of the group, below x = 0 or
\* below y_min, on_motion puts every dragged point at its coordinates at the
\* press plus the travel of the pointer since the press.  The last point of
\* the curve is left out for x while the edit lock is on (C15).
C24_UniformTranslation ==
    \A ex \in GridX, ey \in PointerY :
        dragging =>
            LET dr   == dragged_points
                n    == Len(dr)
                cl   == click_locations
                c    == get_new_unchecked_coordinates(cl, ex, ey)
                L    == get_left_neighbor(points, dr[1])
                R    == get_right_neighbor(points, dr[n])
                new  == after_motion(ex, ey).points
                free == /\ L # 0 => c[1].x > points[L].x + XRes
                        /\ R # 0 => c[n].x < points[R].x - XRes
                        /\ \A j \in 1..n : c[j].x >= 0 /\ c[j].y >= YMin
            IN  free =>
                    \A j \in 1..n :
                        dr[j] # 0 =>
                            /\ new[dr[j]].y = cl[j][2] + (ey - cl[j][4])
                            /\ ~(edit_lock_on /\ dr[j] = Len(points)) =>
                                   new[dr[j]].x = cl[j][1] + (ex - cl[j][3])

\* C25: whenever the y entry is enabled and for every value entered in it,
\* set_selected_point_y leaves the first selected point with exactly that y and
\* changes neither the x of that point nor any other point.
C25_AppliedY ==
    \A y \in WideYEntries :
        (selected_points # <<>> /\ y_box.enabled /\ y # y_box.value) =>
            LET p  == selected_points[1]
                st == set_selected_point_y(
                          St(points, selected_points, edit_lock_on,
                             x_box, [y_box EXCEPT !.value = y]))
            IN  st.points = [points EXCEPT ![p].y = y]

\* C25 at work: a y between two multiples of 0.001 was entered for a point
\* that is off the grid of the x entry; the point has that y and its x.
C25_EnteredOffGrid ==
    /\ last_op = "set_y"
    /\ selected_points # <<>>
    /\ points[selected_points[1]].y = Round3Y \div 2 + 1
    /\ points[selected_points[1]].x % XRes # 0

\* C26: as long as no element simulation has been chosen, the curve of the
\* newly created one is the two default points, (0.00, 1.0) and (35.00, 1.0),
\* in ascending x, x_res or more apart and at y_min or above.
C26_DefaultCurve ==
    ~current =>
        /\ points = <<Point(0, DefaultY), Point(DefaultX, DefaultY)>>
        /\ Len(points) >= 2
        /\ \A i \in 1..(Len(points) - 1) :
               /\ points[i].x < points[i + 1].x
               /\ points[i + 1].x - points[i].x >= XRes
        /\ \A i \in 1..Len(points) : points[i].y >= YMin

\* C26 at work: an editor with a new element simulation that has its edit
\* lock and is not chosen yet, its second point at the default x.
C26_NewLockedSimulation ==
    /\ ~current
    /\ elem_lock
    /\ Len(points) = 2
    /\ points[2].x = DefaultX

\* C27: get_md5_for_files on one or more files returns the digest of the
\* combined content of all of them.
C27_CombinedDigest ==
    (md5_result.call = "get_md5_for_files" /\ file_paths # <<>>) =>
        /\ ~md5_result.value.raised
        /\ md5_result.value.digest = hexdigest_of(combined(file_paths))

\* C28: values_changed is true exactly when one of name, description,
\* simulation type, simulation mode (the stored mode taken in lower case, as
\* the widget gives it), number of ions, pre-ions, recoils, scaling ions,
\* minimum scattering angle, minimum main scattering angle or minimum energy
\* of the widget differs from that of the element simulation, whatever the
\* seed numbers are; the answer a caller got is that one; and right after
\* update_settings it is false.
C28_ValuesChanged ==
    LET es   == element_simulation
        self == properties(settings)
        differ == {es.name # self.name,
                   es.description # self.description,
                   es.simulation_type # self.simulation_type,
                   lower(es.simulation_mode) # self.simulation_mode,
                   es.number_of_ions # self.number_of_ions,
                   es.number_of_preions # self.number_of_ions_in_presimu,
                   es.number_of_recoils # self.number_of_recoils,
                   es.number_of_scaling_ions # self.number_of_scaling_ions,
                   es.minimum_scattering_angle # self.minimum_scattering_angle,
                   es.minimum_main_scattering_angle #
                       self.minimum_main_scattering_angle,
                   es.minimum_energy # self.minimum_energy_of_ions}
    IN  /\ values_changed(es, settings) = (TRUE \in differ)
        /\ last_op = "values_changed" =>
               changed = (IF TRUE \in differ THEN "True" ELSE "False")
        /\ last_op = "update_settings" => ~values_changed(es, settings)

\* C28 at work: the caller was told that nothing has changed while the seed
\* number of the widget is not the one of the element simulation.
C28_SeedAloneNotRegistered ==
    /\ last_op = "values_changed"
    /\ changed = "False"
    /\ settings.seedSpinBox # element_simulation.seed_number

\* C29: whenever a drag is open, a motion to any pointer position leaves the
\* dragged points where a motion to that position leaves them after a motion
\* to any other position first; and when the curve with the dragged points at
\* their press coordinates is in ascending x with gaps of x_res or more and
\* y >= y_min, a motion back to the pointer position of the press leaves every
\* dragged point at its press coordinates.
C29_PathIndependent ==
    dragging =>
        LET dr  == dragged_points
            cl  == click_locations
            at_press == [k \in 1..Len(points) |->
                            IF Contains(dr, k)
                            THEN [x |-> cl[IndexOf(dr, k)][1], y |-> cl[IndexOf(dr, k)][2]]
                            ELSE [x |-> points[k].x, y |-> points[k].y]]
            valid == /\ \A k \in 1..(Len(points) - 1) :
                            at_press[k + 1].x - at_press[k].x >= XRes
                     /\ \A k \in 1..Len(points) : at_press[k].y >= YMin
            back == after_motion(cl[1][3], cl[1][4]).points
        IN  /\ \A p \in GridX, q \in GridX, ey \in PointerY :
                   LET s1 == after_motion(p, ey)
                       s2 == after_motion_at(s1.points, s1.x_box, s1.y_box, q, ey)
                       direct == after_motion(q, ey).points
                   IN  \A j \in 1..Len(dr) :
                           dr[j] # 0 => s2.points[dr[j]] = direct[dr[j]]
            /\ valid =>
                   \A j \in 1..Len(dr) :
                       dr[j] # 0 =>
                           /\ back[dr[j]].x = cl[j][1]
                           /\ back[dr[j]].y = cl[j][2]

\* C30: a press that begins a drag (the step that lengthens the drag list)
\* leaves in the drag list each selected point once and nothing else, also
\* after a release that was not processed.
C30_DragSetIsSelection ==
    [][Len(dragged_points') > Len(dragged_points) =>
           /\ Len(dragged_points') = Len(selected_points')
           /\ Range(dragged_points') = Range(selected_points')]_vars

\* C31: while a point is selected, the undo action of each axis is enabled
\* exactly when the first selected point has entries on its undo stack of that
\* axis, whatever the selection was before; and no undo has raised.
C31_UndoEnabledMatchesStack ==
    /\ selected_points # <<>> =>
           /\ actionXUndo <=> (points[selected_points[1]].previous_x # <<>>)
           /\ actionYUndo <=> (points[selected_points[1]].previous_y # <<>>)
    /\ last_op # "undo_raised"

\* C32: while an element simulation is current, every point of the selection
\* and every point of the drag list is a point of the current curve, whatever
\* presses, span selections, added points, removals and releases came before,
\* a removal while the drag list is not empty included.
C32_PointsOfCurrentCurve ==
    current =>
        \A k \in Range(selected_points) \cup Range(dragged_points) :
            k \in 1..Len(points)

\* C33: in every reachable state the selected points are consecutive points of
\* the curve, in curve order, and the first and the last of them are the
\* leftmost and the rightmost of the selection; and a span selection from xmin
\* to xmax selects exactly the points of the curve with xmin <= x <= xmax.
C33_ContiguousSelection ==
    /\ \A i \in 1..(Len(selected_points) - 1) :
           selected_points[i + 1] = selected_points[i] + 1
    /\ \A i \in 1..Len(selected_points) :
           /\ points[selected_points[1]].x <= points[selected_points[i]].x
           /\ points[selected_points[i]].x <= points[Last(selected_points)].x
    /\ \A xmin \in SpanEnds, xmax \in SpanEnds :
           xmin <= xmax =>
               Range(in_span(points, xmin, xmax, 1)) =
                   {k \in 1..Len(points) : xmin <= points[k].x /\ points[k].x <= xmax}

\* C34: a pointer motion changes nothing but the coordinates of the points of
\* the drag list: the curve keeps its number of points, every point that is
\* not dragged keeps its place and its coordinates, every point keeps its undo
\* stacks, and the selection and the drag list are the same after the step.
C34_MotionMovesDraggedOnly ==
    [][last_op' = "motion" =>
          /\ Len(points') = Len(points)
          /\ \A k \in 1..Len(points) :
                 /\ points'[k].previous_x = points[k].previous_x
                 /\ points'[k].previous_y = points[k].previous_y
                 /\ k \notin Range(dragged_points) => points'[k] = points[k]
          /\ selected_points' = selected_points
          /\ dragged_points' = dragged_points]_vars

\* C34 at work: one point of a curve of three is dragged and a motion has taken
\* it to another place than it had at the press.
C34_OneOfThreeDragged ==
    /\ last_op = "motion"
    /\ Len(points) = 3
    /\ Len(dragged_points) = 1
    /\ dragged_points[1] # 0
    /\ << points[dragged_points[1]].x, points[dragged_points[1]].y >> #
           << click_locations[1][1], click_locations[1][2] >>

\* C35: an entry in the x box or in the y box, a multiply and an undo change
\* the first selected point only: every other point of the curve, selected or
\* not, keeps its coordinates and its undo stacks, the curve keeps its number
\* of points, and the selection is the same after the step.
C35_FirstSelectedOnly ==
    [][last_op' \in {"set_x", "set_y", "multiply_x", "multiply_y",
                     "multiply_rejected", "undo_x", "undo_y", "undo_raised"} =>
          /\ Len(points') = Len(points)
          /\ \A k \in 1..Len(points) :
                 k # selected_points[1] => points'[k] = points[k]
          /\ selected_points' = selected_points]_vars

\* C35 at work: with two or more points selected, a multiply has just saved the
\* old coordinate of the first of them on its undo stack, and the undo stacks
\* of the other selected points are empty.
C35_FirstOfSeveralMultiplied ==
    /\ last_op \in {"multiply_x", "multiply_y"}
    /\ Len(selected_points) >= 2
    /\ points[selected_points[1]].previous_x \o points[selected_points[1]].previous_y # <<>>
    /\ \A i \in 2..Len(selected_points) :
           points[selected_points[i]].previous_x \o points[selected_points[i]].previous_y = <<>>

\* C36: a press on a point that is not selected makes it the only selected
\* point, a press on a selected point keeps the selection, and in both cases
\* the drag list is the selection after the press.  A Ctrl-press off every
\* marker empties the selection; when it is on the line and add_point accepts
\* the point, the curve has one point more and the selection and the drag list
\* are that point alone.  A press without Ctrl off every marker leaves the
\* curve and the selection as they were.
C36_PressSelects ==
    [][/\ \A i \in 1..Len(points) :
              on_click_point(i) =>
                  /\ selected_points' =
                         (IF Contains(selected_points, i) THEN selected_points ELSE <<i>>)
                  /\ dragged_points' = selected_points'
       /\ on_click_ctrl_empty => selected_points' = <<>> /\ points' = points
       /\ last_op' = "add_rejected" => selected_points' = <<>>
       /\ last_op' = "add" =>
              /\ Len(points') = Len(points) + 1
              /\ Len(selected_points') = 1
              /\ selected_points'[1] \in 1..Len(points')
              /\ dragged_points' = selected_points'
       /\ last_op' = "press_missed" =>
              points' = points /\ selected_points' = selected_points]_vars

\* C37: a step that chooses an element leaves the selection and the drag list
\* empty and the edit lock flag equal to the lock state of the element; every
\* other step that changes the flag is an unlock_edit the user confirmed, and
\* takes it from on to off; and while no element simulation is current, a step
\* either chooses an element or leaves the editor as it is.
C37_LockFollowsElement ==
    [][/\ choose_element =>
              /\ selected_points' = <<>>
              /\ dragged_points' = <<>>
              /\ edit_lock_on' = elem_lock
       /\ edit_lock_on' # edit_lock_on =>
              \/ choose_element
              \/ edit_lock_on /\ ~edit_lock_on' /\ unlock_edit(TRUE)
       /\ ~current => choose_element \/ UNCHANGED editor_vars]_vars

\* C37 at work: a locked element was chosen: the flag is on, nothing is
\* selected and nothing is dragged.
C37_LockedElementChosen ==
    /\ current
    /\ elem_lock
    /\ edit_lock_on
    /\ selected_points = <<>>
    /\ dragged_points = <<>>

====
